---- MODULE Spec2Model ----
(***************************************************************************)
(* A model of adafruit_irremote.py: pulse binning (bin_data), the generic  *)
(* mark/space decoder (decode_bits), the resumable framer                  *)
(* (NonblockingGenericDecode.read), the legacy wrappers of GenericDecode   *)
(* (decode_bits, read_pulses) and the encoder (GenericTransmit.transmit).  *)
(*                                                                         *)
(* Every component is a separate specification over the same variables;    *)
(* the variables of the components a specification does not run stay at    *)
(* their idle values.                                                      *)
(***************************************************************************)
EXTENDS Integers, Sequences, FiniteSets, TLC

VARIABLES
    \* ---- bin_data, one pulse of its main loop at a time
    bin_input,      \* the list handed to bin_data
    bins,           \* the local list of [representative, count] pairs
    bin_i,          \* number of pulses of bin_input already processed
    \* ---- GenericTransmit.transmit followed by decode_bits on what was sent
    profile,        \* the GenericTransmit object: header, one, zero, trail
    data,           \* transmit(data=...)
    nbits,          \* transmit(nbits=...), None when absent
    repeat,         \* transmit(repeat=...)
    delay,          \* transmit(delay=...)
    tx_pc,          \* position inside transmit
    durations,      \* the array built by transmit
    tx_i,           \* number of times the train was sent
    pulseout,       \* everything done to the outside: sends and sleeps
    \* ---- decode_bits and the GenericDecode.decode_bits wrapper
    dec_pc,         \* position of the caller of decode_bits
    train,          \* the caller's list of pulses
    train0,         \* the same list as it was before the first call
    msg,            \* outcome of the first decode_bits(train)
    msg2,           \* outcome of the second decode_bits(train)
    legacy,         \* outcome of GenericDecode().decode_bits(train)
    \* ---- NonblockingGenericDecode
    max_pulse,      \* self.max_pulse
    pulsein,        \* self.pulses, the PulseIn deque
    unparsed,       \* self._unparsed_pulses
    gen,            \* the generator returned by read(): none or suspended
    calls,          \* number of read() calls made so far
    emitted,        \* messages yielded so far, each with the call it is of
    consumed,       \* pulses popped so far, each with the call that popped
    arrived,        \* number of pulses the hardware delivered so far
    \* ---- GenericDecode.read_pulses
    rp_pc,          \* position inside read_pulses
    rp_blocking,    \* read_pulses(blocking=...)
    rp_source,      \* input_pulses, the PulseIn deque
    received,       \* local of _read_pulses_non_blocking
    pruning,        \* local of _read_pulses_non_blocking
    recent_count,   \* local of _read_pulses_non_blocking
    rp_result,      \* what read_pulses returned
    rp_taken,       \* every pulse popped since read_pulses was called
    rp_slept,       \* number of time.sleep calls made, capped at 1
    rp_empty_at_call, \* whether the source was empty when called
    rp_arrived      \* number of pulses the hardware delivered so far

binVars == <<bin_input, bins, bin_i>>
txVars  == <<profile, data, nbits, repeat, delay, tx_pc, durations, tx_i,
             pulseout>>
decVars == <<dec_pc, train, train0, msg, msg2, legacy>>
frVars  == <<max_pulse, pulsein, unparsed, gen, calls, emitted, consumed,
             arrived>>
rpVars  == <<rp_pc, rp_blocking, rp_source, received, pruning, recent_count,
             rp_result, rp_taken, rp_slept, rp_empty_at_call, rp_arrived>>
vars    == <<binVars, txVars, decVars, frVars, rpVars>>

\* Python's None where a string is expected, and an optional value as a
\* sequence of at most one element
None == "None"
Nothing == <<>>
Some(x) == <<x>>
IsSome(o) == Len(o) = 1
Value(o) == o[1]

(***************************************************************************)
(* Bounds of the model.                                                    *)
(***************************************************************************)
MaxBinLen   == 3    \* longest list handed to bin_data on its own
MaxStream   == 4    \* pulses delivered to a NonblockingGenericDecode
MaxCalls    == 3    \* read() calls on one NonblockingGenericDecode
MaxRpStream == 4    \* pulses delivered during one read_pulses
MaxData     == 2    \* bytes of data handed to transmit
MaxRepeat   == 2    \* largest repeat handed to transmit

(***************************************************************************)
(* Helpers.                                                                *)
(***************************************************************************)
Min(a, b) == IF a <= b THEN a ELSE b
Max(a, b) == IF a >= b THEN a ELSE b

\* r * 0.75 <= p <= r * 1.25; both products are exact in binary floating
\* point for 16 bit r, so the comparison is the integer one.
InBand(r, p) == 3 * r <= 4 * p /\ 4 * p <= 5 * r

\* seq[start:stop:2] of Python for 0 <= start, 0 <= stop <= len(seq)
Slice2(seq, start, stop) ==
    IF stop <= start THEN <<>>
    ELSE [j \in 1..((stop - start + 1) \div 2) |-> seq[start + 2 * (j - 1) + 1]]

\* [x for x in seq if Keep(x)]
RECURSIVE SelectFrom(_, _, _)
SelectFrom(seq, Keep(_), i) ==
    IF i > Len(seq) THEN <<>>
    ELSE IF Keep(seq[i]) THEN <<seq[i]>> \o SelectFrom(seq, Keep, i + 1)
    ELSE SelectFrom(seq, Keep, i + 1)

(***************************************************************************)
(* bin_data                                                                *)
(***************************************************************************)
\* a variant averaging upwards
bin_average_up(rep, pulse) == (rep + pulse + 1) \div 2

\* line 82: (pulse_bin[0] + pulse) // 2
bin_average(rep, pulse) == (rep + pulse) \div 2

\* lines 79-80: the first bin the pulse matches, 0 when there is none
bin_match(bs, pulse) ==
    IF \E b \in 1..Len(bs) : InBand(bs[b][1], pulse)
    THEN CHOOSE b \in 1..Len(bs) :
            /\ InBand(bs[b][1], pulse)
            /\ \A c \in 1..(b - 1) : ~InBand(bs[c][1], pulse)
    ELSE 0

\* lines 77-87: one pass of the loop over pulses
bin_pulse(bs, pulse) ==
    LET b == bin_match(bs, pulse) IN
    IF b = 0 THEN Append(bs, <<pulse, 1>>)
    ELSE [bs EXCEPT ![b] = <<bin_average(bs[b][1], pulse), bs[b][2] + 1>>]

\* line 74
bin_seed(pulses) == << <<pulses[1], 0>> >>

RECURSIVE bin_loop(_, _, _)
bin_loop(bs, pulses, i) ==
    IF i > Len(pulses) THEN bs
    ELSE bin_loop(bin_pulse(bs, pulses[i]), pulses, i + 1)

bin_data(pulses) == bin_loop(bin_seed(pulses), pulses, 1)

(***************************************************************************)
(* decode_bits                                                             *)
(***************************************************************************)
IRMessage(pulses, code) ==
    [type |-> "IRMessage", pulses |-> pulses, code |-> code, reason |-> None]

UnparseableIRMessage(pulses, reason) ==
    [type |-> "UnparseableIRMessage", pulses |-> pulses, code |-> <<>>,
     reason |-> reason]

NECRepeatIRMessage(pulses) ==
    [type |-> "NECRepeatIRMessage", pulses |-> pulses, code |-> <<>>,
     reason |-> None]

\* what decode_bits hands back: the message, whether it came as the argument
\* of a raised FailedToDecode, and the caller's list as the call leaves it
Returned(message, arg) == [raised |-> FALSE, message |-> message, arg |-> arg]
FailedToDecode(message, arg) ==
    [raised |-> TRUE, message |-> message, arg |-> arg]

\* lines 103-108
is_nec_repeat(pulses) ==
    /\ Len(pulses) = 3
    /\ 8000 <= pulses[1] /\ pulses[1] <= 10000
    /\ 2000 <= pulses[2] /\ pulses[2] <= 3000
    /\ 450 <= pulses[3] /\ pulses[3] <= 700

\* lines 116-119, None standing for the length of the list
pulses_end(pulses) ==
    IF Len(pulses) % 2 = 0 THEN Len(pulses) - 1 ELSE Len(pulses)

\* line 128: the representatives of the bins holding one pulse
bins_once(bs) ==
    LET once == SelectFrom(bs, LAMBDA b : b[2] = 1, 1)
    IN  [k \in 1..Len(once) |-> once[k][1]]

\* lines 129-130: the bins holding more than one pulse
bins_many(bs) == SelectFrom(bs, LAMBDA b : b[2] > 1, 1)

\* a variant classifying the longer duration as 1
classify_long_is_one(mark, space, pulse_length) ==
    IF InBand(space, pulse_length) THEN "1"
    ELSE IF InBand(mark, pulse_length) THEN "0"
    ELSE "outside"

\* lines 163-169: False for a space, True for a mark
classify(mark, space, pulse_length) ==
    IF InBand(space, pulse_length) THEN "0"
    ELSE IF InBand(mark, pulse_length) THEN "1"
    ELSE "outside"

\* lines 173-176: the byte the bits at 0-based positions 8k .. 8k+7 shift into
RECURSIVE pack_byte(_, _, _, _)
pack_byte(bits, i, last, acc) ==
    IF i > last THEN acc
    ELSE pack_byte(bits, i + 1, last,
                   2 * acc + (IF bits[i] = "1" THEN 1 ELSE 0))

\* lines 172-176
pack(bits) ==
    [k \in 1..((Len(bits) + 7) \div 8) |->
        pack_byte(bits, 8 * (k - 1) + 1, Min(8 * k, Len(bits)), 0)]

\* a variant building the message from the rebound local name
message_pulses_rebound(input_pulses, pulses) == pulses

\* lines 99, 109, 112, 133, 143, 147, 150, 168, 177: every message is built
\* from input_pulses, the tuple taken on entry, not from the name pulses
message_pulses(input_pulses, pulses) == input_pulses

\* lines 92-177.  arg is the caller's list after the call: line 100 copies
\* it, and lines 121, 122 and 158 build new lists, so lines 164 and 166 never
\* write to it.
decode_bits(arg) ==
    LET input_pulses == arg
        pulses       == arg
        stop         == pulses_end(pulses)
        evens        == Slice2(pulses, 1, stop)
        odds         == Slice2(pulses, 2, stop)
        all_even     == bin_data(evens)
        all_odd      == bin_data(odds)
        outliers     == bins_once(all_even \o all_odd)
        even_bins    == bins_many(all_even)
        odd_bins     == bins_many(all_odd)
        payload      == IF Len(even_bins) = 1 THEN odds ELSE evens
        pulse_bins   == IF Len(even_bins) = 1 THEN odd_bins ELSE even_bins
        mark         == Min(pulse_bins[1][1], pulse_bins[2][1])
        space        == Max(pulse_bins[1][1], pulse_bins[2][1])
        kept         == IF outliers # <<>>
                        THEN SelectFrom(payload,
                                 LAMBDA p : ~InBand(outliers[1], p), 1)
                        ELSE payload
        bits         == [i \in 1..Len(kept) |-> classify(mark, space, kept[i])]
        Fail(working, reason) ==
            FailedToDecode(UnparseableIRMessage(
                message_pulses(input_pulses, working), reason), arg)
    IN  IF is_nec_repeat(pulses)
        THEN Returned(NECRepeatIRMessage(
                 message_pulses(input_pulses, pulses)), arg)
        ELSE IF Len(pulses) < 10 THEN Fail(pulses, "Too short")
        ELSE IF even_bins = <<>> \/ odd_bins = <<>>
        THEN Fail(pulses, "Not enough data")
        ELSE IF Len(even_bins) # 1 /\ Len(odd_bins) # 1
        THEN Fail(pulses, "Both even/odd pulses differ")
        ELSE IF Len(pulse_bins) = 1 THEN Fail(payload, "Pulses do not differ")
        ELSE IF Len(pulse_bins) > 2
        THEN Fail(payload, "Only mark & space handled")
        ELSE IF \E i \in 1..Len(bits) : bits[i] = "outside"
        THEN Fail(kept, "Pulses outside mark/space")
        ELSE Returned(IRMessage(message_pulses(input_pulses, bits),
                                pack(bits)), arg)

(***************************************************************************)
(* GenericDecode.decode_bits                                               *)
(***************************************************************************)
Raises(exception) == [raises |-> exception, value |-> <<>>]
Returns(value)    == [raises |-> None, value |-> value]

\* lines 261-268: line 263 lets a FailedToDecode of decode_bits through
legacy_decode_bits(pulses) ==
    LET result == decode_bits(pulses) IN
    IF result.raised THEN Raises("FailedToDecode")
    ELSE IF result.message.type = "NECRepeatIRMessage"
    THEN Raises("IRNECRepeatException")
    ELSE IF result.message.type = "UnparseableIRMessage"
    THEN Raises("IRDecodeException")
    ELSE Returns(result.message.code)

(***************************************************************************)
(* GenericTransmit.transmit                                                *)
(***************************************************************************)
\* lines 344-348
Profile(h, o, z, t) == [header |-> h, one |-> o, zero |-> z, trail |-> t]

IndexError == [raises |-> "IndexError", array |-> <<>>]
Built(array) == [raises |-> None, array |-> array]

\* lines 361-363
bits_to_send(d, n) ==
    IF IsSome(n) /\ Value(n) < Len(d) * 8 THEN Value(n) ELSE Len(d) * 8

\* line 377: (data[byte_index] & 1 << i) > 0
bit_set(byte, i) == (byte \div (2 ^ i)) % 2 = 1

\* lines 373-386: the loop over the bytes and, inside it, over the bits 7
\* down to 0; the break of line 386 leaves the inner loop only.  out is
\* always 2 + 2 * bit_count.  A write past the end of the array raises.
RECURSIVE fill(_, _, _, _, _, _, _)
fill(array, p, d, n, byte_index, i, bit_count) ==
    LET out  == 2 + 2 * bit_count
        pair == IF bit_set(d[byte_index], i) THEN p.one ELSE p.zero
        next == [array EXCEPT ![out + 1] = pair[1], ![out + 2] = pair[2]]
    IN  IF byte_index > Len(d) THEN Built(array)
        ELSE IF out + 2 > Len(array) THEN IndexError
        ELSE IF bit_count + 1 >= n \/ i = 0
        THEN fill(next, p, d, n, byte_index + 1, 7, bit_count + 1)
        ELSE fill(next, p, d, n, byte_index, i - 1, bit_count + 1)

\* lines 361-386: the array handed to pulseout.send, or the IndexError
build(p, d, n) ==
    LET bts    == bits_to_send(d, n)
        length == 2 + bts * 2 + (IF IsSome(p.trail) THEN 1 ELSE 0)
        zeros  == [k \in 1..length |-> 0]
        head   == [zeros EXCEPT ![1] = p.header[1], ![2] = p.header[2]]
        tail   == IF IsSome(p.trail)
                  THEN [head EXCEPT ![length] = Value(p.trail)]
                  ELSE head
    IN  fill(tail, p, d, bts, 1, 7, 0)

Send(array) == [op |-> "send", arg |-> array]
Sleep(secs) == [op |-> "sleep", arg |-> <<secs>>]

\* lines 361-389
TransmitBuild ==
    /\ tx_pc = "call"
    /\ durations' = build(profile, data, nbits)
    /\ tx_pc' = IF durations'.raises = None THEN "send" ELSE "raised"
    /\ UNCHANGED <<profile, data, nbits, repeat, delay, tx_i, pulseout>>
    /\ UNCHANGED <<binVars, decVars, frVars, rpVars>>

\* lines 392-393: where transmit goes once it has sent the train sent times
after_send(sent, r, d) ==
    IF sent > r THEN "done" ELSE IF d # 0 THEN "sleep" ELSE "send"

\* lines 391 and 395
TransmitSend ==
    /\ tx_pc = "send"
    /\ pulseout' = Append(pulseout, Send(durations.array))
    /\ tx_i' = tx_i + 1
    /\ tx_pc' = after_send(tx_i', repeat, delay)
    /\ UNCHANGED <<profile, data, nbits, repeat, delay, durations>>
    /\ UNCHANGED <<binVars, decVars, frVars, rpVars>>

\* line 394
TransmitSleep ==
    /\ tx_pc = "sleep"
    /\ pulseout' = Append(pulseout, Sleep(delay))
    /\ tx_pc' = "send"
    /\ UNCHANGED <<profile, data, nbits, repeat, delay, durations, tx_i>>
    /\ UNCHANGED <<binVars, decVars, frVars, rpVars>>

(***************************************************************************)
(* The caller of decode_bits: it hands over what a transmitter sent.       *)
(***************************************************************************)
\* the receiver hears the train of a finished or failed transmit
Hear ==
    /\ dec_pc = "idle"
    /\ tx_pc = "done"
    /\ train' = pulseout[1].arg
    /\ train0' = train'
    /\ dec_pc' = "have"
    /\ UNCHANGED <<msg, msg2, legacy>>
    /\ UNCHANGED <<binVars, txVars, frVars, rpVars>>

\* decode_bits(train), a first time
Decode ==
    /\ dec_pc = "have"
    /\ LET result == decode_bits(train) IN
        /\ msg' = [raised |-> result.raised, message |-> result.message]
        /\ train' = result.arg
    /\ dec_pc' = "decoded"
    /\ UNCHANGED <<train0, msg2, legacy>>
    /\ UNCHANGED <<binVars, txVars, frVars, rpVars>>

\* decode_bits(train), a second time
DecodeAgain ==
    /\ dec_pc = "decoded"
    /\ LET result == decode_bits(train) IN
        /\ msg2' = [raised |-> result.raised, message |-> result.message]
        /\ train' = result.arg
    /\ dec_pc' = "decoded twice"
    /\ UNCHANGED <<train0, msg, legacy>>
    /\ UNCHANGED <<binVars, txVars, frVars, rpVars>>

\* GenericDecode().decode_bits(train)
LegacyDecode ==
    /\ dec_pc = "decoded twice"
    /\ legacy' = legacy_decode_bits(train)
    /\ dec_pc' = "legacy"
    /\ UNCHANGED <<train, train0, msg, msg2>>
    /\ UNCHANGED <<binVars, txVars, frVars, rpVars>>

(***************************************************************************)
(* bin_data on its own, one pulse at a time                                *)
(***************************************************************************)
\* lines 76-87, one pass
BinPulse ==
    /\ bin_i < Len(bin_input)
    /\ bins' = bin_pulse(bins, bin_input[bin_i + 1])
    /\ bin_i' = bin_i + 1
    /\ UNCHANGED bin_input
    /\ UNCHANGED <<txVars, decVars, frVars, rpVars>>

(***************************************************************************)
(* Idle values of the components, and the inputs of each specification.    *)
(***************************************************************************)
BinIdle ==
    /\ bin_input = <<>>
    /\ bins = <<>>
    /\ bin_i = 0

NoMessage == [type |-> None, pulses |-> <<>>, code |-> <<>>, reason |-> None]

TxIdle ==
    /\ profile = Profile(<<0, 0>>, <<0, 0>>, <<0, 0>>, Nothing)
    /\ data = <<>>
    /\ nbits = Nothing
    /\ repeat = 0
    /\ delay = 0
    /\ tx_pc = "idle"
    /\ durations = Built(<<>>)
    /\ tx_i = 0
    /\ pulseout = <<>>

DecIdle ==
    /\ dec_pc = "idle"
    /\ train = <<>>
    /\ train0 = <<>>
    /\ msg = [raised |-> FALSE, message |-> NoMessage]
    /\ msg2 = [raised |-> FALSE, message |-> NoMessage]
    /\ legacy = Raises(None)

FrIdle ==
    /\ max_pulse = 10000
    /\ pulsein = <<>>
    /\ unparsed = <<>>
    /\ gen = "none"
    /\ calls = 0
    /\ emitted = <<>>
    /\ consumed = <<>>
    /\ arrived = 0

RpIdle ==
    /\ rp_pc = "idle"
    /\ rp_blocking = TRUE
    /\ rp_source = <<>>
    /\ received = Nothing
    /\ pruning = FALSE
    /\ recent_count = 0
    /\ rp_result = Nothing
    /\ rp_taken = <<>>
    /\ rp_slept = 0
    /\ rp_empty_at_call = FALSE
    /\ rp_arrived = 0

SeqsUpTo(S, n) == UNION {[1..k -> S] : k \in 0..n}

\* what the hardware may deliver to a NonblockingGenericDecode
FramerPulses == {500, 2500, 9000, 11000}

\* ---- bin_data
BinDurations == {90, 100, 110, 200}

InitBin ==
    /\ bin_input \in SeqsUpTo(BinDurations, MaxBinLen) \ {<<>>}
    /\ bins = bin_seed(bin_input)
    /\ bin_i = 0
    /\ TxIdle /\ DecIdle /\ FrIdle /\ RpIdle

NextBin == BinPulse

SpecBin == InitBin /\ [][NextBin]_vars

\* ---- transmit
TxProfiles ==
    {Profile(<<9000, 4500>>, <<560, 560>>, <<560, 1700>>, t) :
        t \in {Nothing, Some(560)}}
TxBytes == {165, 15}      \* 0xA5, 0x0F

InitTransmit ==
    /\ profile \in TxProfiles
    /\ data \in SeqsUpTo(TxBytes, MaxData)
    /\ nbits \in {Nothing} \cup {Some(n) : n \in 0..(8 * MaxData + 1)}
    /\ repeat \in 0..MaxRepeat
    /\ delay \in {0, 1}
    /\ tx_pc = "call"
    /\ durations = Built(<<>>)
    /\ tx_i = 0
    /\ pulseout = <<>>
    /\ BinIdle /\ DecIdle /\ FrIdle /\ RpIdle

NextTransmit == TransmitBuild \/ TransmitSend \/ TransmitSleep

SpecTransmit == InitTransmit /\ [][NextTransmit]_vars

\* ---- transmit, then decode what was sent
CodecDurations == {560, 1700}
CodecHeaderSpaces == {560, 1700, 2500, 4500}
CodecTrails == {Nothing, Some(0), Some(560), Some(1700)}
CodecProfiles ==
    {Profile(<<9000, h>>, <<om, os>>, <<zm, zs>>, t) :
        h \in CodecHeaderSpaces, om \in CodecDurations,
        os \in CodecDurations, zm \in CodecDurations,
        zs \in CodecDurations, t \in CodecTrails}

InitCodec ==
    /\ profile \in CodecProfiles
    /\ data \in {<<>>, <<165>>}
    /\ nbits \in {Nothing, Some(4)}
    /\ repeat \in {0, 1}
    /\ delay \in {0, 1}
    /\ tx_pc = "call"
    /\ durations = Built(<<>>)
    /\ tx_i = 0
    /\ pulseout = <<>>
    /\ BinIdle /\ DecIdle /\ FrIdle /\ RpIdle

NextCodec ==
    \/ TransmitBuild \/ TransmitSend \/ TransmitSleep
    \/ Hear \/ Decode \/ DecodeAgain \/ LegacyDecode

SpecCodec == InitCodec /\ [][NextCodec]_vars

(***************************************************************************)
(* NonblockingGenericDecode.read: a generator, run from one yield to the   *)
(* next by the caller's iteration.                                         *)
(***************************************************************************)
\* the hardware appends a pulse to the PulseIn
PulseArrives ==
    /\ arrived < MaxStream
    /\ \E pulse \in FramerPulses :
           pulsein' = Append(pulsein, pulse)
    /\ arrived' = arrived + 1
    /\ UNCHANGED <<max_pulse, unparsed, gen, calls, emitted, consumed>>
    /\ UNCHANGED <<binVars, txVars, decVars, rpVars>>

\* lines 228-231: pop and append until a pulse exceeds max_pulse or the
\* PulseIn is empty
RECURSIVE read_loop(_, _, _, _)
read_loop(source, buffer, popped, limit) ==
    IF source = <<>>
    THEN [source |-> source, buffer |-> buffer, popped |-> popped,
          ended |-> FALSE]
    ELSE LET pulse == Head(source) IN
         IF pulse > limit
         THEN [source |-> Tail(source), buffer |-> Append(buffer, pulse),
               popped |-> Append(popped, pulse), ended |-> TRUE]
         ELSE read_loop(Tail(source), Append(buffer, pulse),
                        Append(popped, pulse), limit)

\* a variant keeping the buffer when the generator goes on
after_yield_kept(buffer) == buffer

\* line 240: self._unparsed_pulses.clear(), run when the generator goes on
\* after a yield
after_yield(buffer) == <<>>

\* lines 228-240 from the top of the while loop to the next yield (lines
\* 234, 239) or to the end of the generator, in read() call number call
ReadRun(buffer, call) ==
    LET run     == read_loop(pulsein, buffer, <<>>, max_pulse)
        outcome == decode_bits(run.buffer)
    IN  /\ pulsein' = run.source
        /\ consumed' = consumed \o
               [k \in 1..Len(run.popped) |->
                   [pulse |-> run.popped[k], call |-> call]]
        /\ IF run.ended
           THEN /\ emitted' = Append(emitted,
                       [call |-> call, message |-> outcome.message])
                /\ unparsed' = outcome.arg
                /\ gen' = "suspended"
           ELSE /\ emitted' = emitted
                /\ unparsed' = run.buffer
                /\ gen' = "none"

\* the caller calls read() and starts to iterate over what it returned
ReadCall ==
    /\ gen = "none"
    /\ calls < MaxCalls
    /\ calls' = calls + 1
    /\ ReadRun(unparsed, calls')
    /\ UNCHANGED <<max_pulse, arrived>>
    /\ UNCHANGED <<binVars, txVars, decVars, rpVars>>

\* the caller asks the generator for the next message
ReadNext ==
    /\ gen = "suspended"
    /\ ReadRun(after_yield(unparsed), calls)
    /\ UNCHANGED <<max_pulse, calls, arrived>>
    /\ UNCHANGED <<binVars, txVars, decVars, rpVars>>

\* the caller leaves its loop after a message and drops the generator: it
\* never runs past the yield of line 234 or 239
ReadAbandon ==
    /\ gen = "suspended"
    /\ gen' = "none"
    /\ UNCHANGED <<max_pulse, pulsein, unparsed, calls, emitted, consumed,
                   arrived>>
    /\ UNCHANGED <<binVars, txVars, decVars, rpVars>>

FramerMaxPulses == {10000, 449}

\* line 214-217
InitFramer ==
    /\ max_pulse \in FramerMaxPulses
    /\ pulsein = <<>>
    /\ unparsed = <<>>
    /\ gen = "none"
    /\ calls = 0
    /\ emitted = <<>>
    /\ consumed = <<>>
    /\ arrived = 0
    /\ BinIdle /\ TxIdle /\ DecIdle /\ RpIdle

\* every generator is iterated to its end
NextFramerExhausted == PulseArrives \/ ReadCall \/ ReadNext

SpecFramerExhausted == InitFramer /\ [][NextFramerExhausted]_vars

\* the caller may stop after any message
NextFramer == PulseArrives \/ ReadCall \/ ReadNext \/ ReadAbandon

SpecFramer == InitFramer /\ [][NextFramer]_vars

(***************************************************************************)
(* GenericDecode.read_pulses and _read_pulses_non_blocking                 *)
(***************************************************************************)
\* line 308, the default of max_pulse
ReadPulsesMaxPulse == 10000

\* what the hardware may deliver during a read_pulses
ReadPulsesPulses == {500, 600, 11000}

\* the hardware appends a pulse to the PulseIn
RpPulseArrives ==
    /\ rp_arrived < MaxRpStream
    /\ \E pulse \in ReadPulsesPulses :
           rp_source' = Append(rp_source, pulse)
    /\ rp_arrived' = rp_arrived + 1
    /\ UNCHANGED <<rp_pc, rp_blocking, received, pruning, recent_count,
                   rp_result, rp_taken, rp_slept, rp_empty_at_call>>
    /\ UNCHANGED <<binVars, txVars, decVars, frVars>>

\* a variant that goes on collecting after the pulse that ends the burst
poll_pulse_resuming(locals, pulse) ==
    IF pulse > ReadPulsesMaxPulse
    THEN locals
    ELSE [locals EXCEPT !.received = Some((IF IsSome(@) THEN Value(@)
                                           ELSE <<>>) \o <<pulse>>)]

\* lines 288-297, recent_count left aside
poll_pulse(locals, pulse) ==
    IF pulse > ReadPulsesMaxPulse /\ ~IsSome(locals.received)
    THEN locals
    ELSE LET pruned == locals.pruning \/ pulse > ReadPulsesMaxPulse IN
         IF pruned THEN [locals EXCEPT !.pruning = TRUE]
         ELSE [locals EXCEPT !.received = Some((IF IsSome(@) THEN Value(@)
                                                ELSE <<>>) \o <<pulse>>)]

\* lines 287-297: the inner while loop, until the PulseIn is empty
RECURSIVE poll_loop(_, _)
poll_loop(locals, source) ==
    IF source = <<>> THEN locals
    ELSE poll_loop(poll_pulse(locals, Head(source)), Tail(source))

\* lines 287-302 and 328-331: one round of the inner loop and what follows
\* it: the return of line 300 (then line 331, or the sleep of line 329), or
\* the sleep of line 302
Poll(locals) ==
    LET after == poll_loop(locals, rp_source) IN
    /\ received' = after.received
    /\ pruning' = after.pruning
    /\ recent_count' = Len(rp_source)
    /\ rp_taken' = rp_taken \o rp_source
    /\ rp_source' = <<>>
    /\ IF recent_count' # 0
       THEN /\ rp_pc' = "pulse_window"
            /\ rp_slept' = 1
            /\ rp_result' = rp_result
       ELSE IF rp_blocking /\ ~IsSome(after.received)
       THEN /\ rp_pc' = "blocking_delay"
            /\ rp_slept' = 1
            /\ rp_result' = rp_result
       ELSE /\ rp_pc' = "returned"
            /\ rp_slept' = rp_slept
            /\ rp_result' = after.received

\* lines 283-285
FreshLocals == [received |-> Nothing, pruning |-> FALSE]

\* read_pulses is called: lines 324-327 and the first round
ReadPulsesCall ==
    /\ rp_pc = "call"
    /\ rp_empty_at_call' = (rp_source = <<>>)
    /\ Poll(FreshLocals)
    /\ UNCHANGED <<rp_blocking, rp_arrived>>
    /\ UNCHANGED <<binVars, txVars, decVars, frVars>>

\* the sleep of line 302 is over: the next round
ReadPulsesWindowOver ==
    /\ rp_pc = "pulse_window"
    /\ Poll([received |-> received, pruning |-> pruning])
    /\ UNCHANGED <<rp_blocking, rp_arrived, rp_empty_at_call>>
    /\ UNCHANGED <<binVars, txVars, decVars, frVars>>

\* the sleep of line 329 is over: _read_pulses_non_blocking is called anew
ReadPulsesDelayOver ==
    /\ rp_pc = "blocking_delay"
    /\ Poll(FreshLocals)
    /\ UNCHANGED <<rp_blocking, rp_arrived, rp_empty_at_call>>
    /\ UNCHANGED <<binVars, txVars, decVars, frVars>>

InitReadPulses ==
    /\ rp_pc = "call"
    /\ rp_blocking \in BOOLEAN
    /\ rp_source = <<>>
    /\ received = Nothing
    /\ pruning = FALSE
    /\ recent_count = 0
    /\ rp_result = Nothing
    /\ rp_taken = <<>>
    /\ rp_slept = 0
    /\ rp_empty_at_call = FALSE
    /\ rp_arrived = 0
    /\ BinIdle /\ TxIdle /\ DecIdle /\ FrIdle

NextReadPulses ==
    \/ RpPulseArrives \/ ReadPulsesCall
    \/ ReadPulsesWindowOver \/ ReadPulsesDelayOver

SpecReadPulses == InitReadPulses /\ [][NextReadPulses]_vars

(***************************************************************************)
(* Properties of bin_data (SpecBin).                                       *)
(***************************************************************************)
\* C9, as stated: binning [100, 110, 90] keeps one bin whose representative
\* is 100, then 105, then 98, with counts 1, 2, 3.
C9_RepresentativesAsStated ==
    bin_input = <<100, 110, 90>> =>
        /\ bin_i = 1 => bins = << <<100, 1>> >>
        /\ bin_i = 2 => bins = << <<105, 2>> >>
        /\ bin_i = 3 => bins = << <<98, 3>> >>

\* C9, amended: binning [100, 110, 90] keeps one bin whose representative
\* is 100, then 105, then 97 (195 // 2), with counts 1, 2, 3.
C9_Representatives ==
    bin_input = <<100, 110, 90>> =>
        /\ bin_i = 1 => bins = << <<100, 1>> >>
        /\ bin_i = 2 => bins = << <<105, 2>> >>
        /\ bin_i = 3 => bins = << <<97, 3>> >>

C9_Witness == bin_input = <<100, 110, 90>> /\ bin_i = 3 /\ Len(bins) = 1

(***************************************************************************)
(* Properties of transmit (SpecTransmit).                                  *)
(***************************************************************************)
\* the bits of d, MSB first byte by byte
BitsOf(d) == [k \in 1..(8 * Len(d)) |->
                 bit_set(d[(k - 1) \div 8 + 1], 7 - ((k - 1) % 8))]

\* header pair, one pair per bit for the first n bits, then the trail
TrainOf(p, d, n) ==
    LET bs == BitsOf(d) IN
    [k \in 1..(2 + 2 * n + Len(p.trail)) |->
        IF k <= 2 THEN p.header[k]
        ELSE IF k > 2 + 2 * n THEN Value(p.trail)
        ELSE LET pair == IF bs[(k - 3) \div 2 + 1] THEN p.one ELSE p.zero
             IN  pair[((k - 3) % 2) + 1]]

\* C3: for every data and every nbits (absent, or 0 and up) transmit builds,
\* without error, the header pair, the first min(nbits, 8 * len(data)) bits
\* of data as one / zero pairs, and the trail if one is configured.
C3_TrainForEveryNbits ==
    tx_pc # "call" =>
        /\ durations.raises = None
        /\ durations.array =
               TrainOf(profile, data,
                       IF IsSome(nbits) THEN Min(Value(nbits), 8 * Len(data))
                       ELSE 8 * Len(data))

\* send, then repeat times (sleep, send), the sleeps left out when d is 0
RECURSIVE SendsAndSleeps(_, _, _)
SendsAndSleeps(array, r, d) ==
    IF r = 0 THEN <<Send(array)>>
    ELSE SendsAndSleeps(array, r - 1, d)
            \o (IF d # 0 THEN <<Sleep(d)>> ELSE <<>>) \o <<Send(array)>>

\* C7: once transmit is over, it has sent the same train repeat + 1 times,
\* with exactly one sleep of delay before each send but the first (none when
\* delay is 0) and no sleep after the last.
C7_SendsAndSleeps ==
    tx_pc \in {"done", "raised"} =>
        \E array \in {durations.array} \cup {pulseout[k].arg : k \in 1..Len(pulseout)} :
            pulseout = SendsAndSleeps(array, repeat, delay)

(***************************************************************************)
(* Properties of decode_bits and its wrapper (SpecCodec).                  *)
(***************************************************************************)
\* a and b differ by more than 50% of each other
Far(a, b) == 2 * Max(a, b) > 3 * Min(a, b)

\* one and zero have the same mark and spaces that differ
SpaceCoded(p) == p.one[1] = p.zero[1] /\ Far(p.one[2], p.zero[2])

\* one and zero have the same space and marks that differ
MarkCoded(p) == p.one[2] = p.zero[2] /\ Far(p.one[1], p.zero[1])

\* the trim and the outlier rule leave the eight differing durations: with
\* differing spaces a trail keeps the last space clear of the trim and the
\* header space is a bin of its own; with differing marks there is no trail
\* and the header space either joins the spaces or is a bin of its own that
\* no mark is within 25% of
HeaderTrailRemoved(p) ==
    \/ /\ SpaceCoded(p)
       /\ IsSome(p.trail)
       /\ ~InBand(p.header[2], p.one[2])
       /\ ~InBand(p.header[2], p.zero[2])
    \/ /\ MarkCoded(p)
       /\ ~IsSome(p.trail)
       /\ \/ InBand(p.header[2], p.one[2])
          \/ ~InBand(p.header[2], p.one[1]) /\ ~InBand(p.header[2], p.zero[1])

\* the differing duration of one is the shorter
OneShorter(p) == p.one[1] + p.one[2] < p.zero[1] + p.zero[2]

RoundTripOf0xA5 ==
    /\ dec_pc = "decoded"
    /\ data = <<165>>
    /\ nbits = Nothing
    /\ HeaderTrailRemoved(profile)

Recovered0xA5 ==
    /\ ~msg.raised
    /\ msg.message.type = "IRMessage"
    /\ msg.message.code = <<165>>

\* C2, as stated: for every profile whose one and zero differ in one
\* duration by more than 50%, header and trail being removed, decode_bits of
\* the train transmit builds for [0xA5] returns the code (0xA5,).
C2_RoundTripAsStated == RoundTripOf0xA5 => Recovered0xA5

\* C2, amended: the same for the profiles whose one has the shorter of the
\* two differing durations.
C2_RoundTrip == RoundTripOf0xA5 /\ OneShorter(profile) => Recovered0xA5

C2_Witness ==
    /\ RoundTripOf0xA5
    /\ OneShorter(profile)
    /\ SpaceCoded(profile)
    /\ train0 = <<9000, 4500, 560, 560, 560, 1700, 560, 560, 560, 1700,
                  560, 1700, 560, 560, 560, 1700, 560, 560, 560>>
    /\ Recovered0xA5

\* C4: GenericDecode.decode_bits raises IRNECRepeatException for an NEC
\* repeat, IRDecodeException for every train that fails to decode, returns
\* the code otherwise, and lets no other exception out.
C4_ThreeOutcomes ==
    dec_pc = "legacy" =>
        /\ legacy.raises \in {None, "IRNECRepeatException", "IRDecodeException"}
        /\ msg.message.type = "NECRepeatIRMessage"
               <=> legacy.raises = "IRNECRepeatException"
        /\ msg.message.type = "UnparseableIRMessage"
               <=> legacy.raises = "IRDecodeException"
        /\ msg.message.type = "IRMessage"
               => legacy = Returns(msg.message.code)

ConsumedPulses == [k \in 1..Len(consumed) |-> consumed[k].pulse]

\* the pulses of stream cut after every pulse above limit: the complete
\* bursts, the call that popped the last pulse of each, and what follows the
\* last such pulse
RECURSIVE Cut(_, _, _, _, _)
Cut(stream, limit, k, bursts, rest) ==
    IF k > Len(stream)
    THEN [bursts |-> bursts, rest |-> rest]
    ELSE IF stream[k].pulse > limit
    THEN Cut(stream, limit, k + 1,
             Append(bursts, [call |-> stream[k].call,
                             pulses |-> Append(rest, stream[k].pulse)]),
             <<>>)
    ELSE Cut(stream, limit, k + 1, bursts, Append(rest, stream[k].pulse))

Bursts == Cut(consumed, max_pulse, 1, <<>>, <<>>)

\* C1: with every read() iterated to its end, one message is emitted per
\* consumed pulse above max_pulse, in the call that consumed that pulse; its
\* pulses are those consumed since the previous such pulse up to and
\* including it; the pulses after the last such pulse stay in the buffer.
\* [500, 9000] in one call and [500, 11000] in the next emit one message of
\* four pulses in the second call.
C1_OneMessagePerBurst ==
    /\ Len(emitted) = Len(Bursts.bursts)
    /\ \A k \in 1..Len(emitted) :
           /\ emitted[k].call = Bursts.bursts[k].call
           /\ emitted[k].message.pulses = Bursts.bursts[k].pulses
           /\ emitted[k].message = decode_bits(Bursts.bursts[k].pulses).message
    /\ gen = "none" => unparsed = Bursts.rest
    /\ gen = "suspended" =>
           /\ Bursts.rest = <<>>
           /\ unparsed = emitted[Len(emitted)].message.pulses
    /\ ( /\ max_pulse = 10000
         /\ consumed = <<[pulse |-> 500, call |-> 1], [pulse |-> 9000, call |-> 1],
                         [pulse |-> 500, call |-> 2], [pulse |-> 11000, call |-> 2]>> )
       => emitted = <<[call |-> 2,
                       message |-> UnparseableIRMessage(
                           <<500, 9000, 500, 11000>>, "Too short")]>>

C1_Witness ==
    /\ max_pulse = 10000
    /\ consumed = <<[pulse |-> 500, call |-> 1], [pulse |-> 9000, call |-> 1],
                    [pulse |-> 500, call |-> 2], [pulse |-> 11000, call |-> 2]>>
    /\ Len(emitted) = 1
    /\ emitted[1].call = 2
    /\ emitted[1].message.pulses = <<500, 9000, 500, 11000>>
    /\ gen = "none"
    /\ unparsed = <<>>

\* C5: read() reports an NEC repeat when the source delivers an NEC repeat
\* signal (mark 8000..10000, space 2000..3000, mark 450..700) followed by
\* the idle gap, max_pulse being the default 10000.
C5_NECRepeatReported ==
    ( /\ max_pulse = 10000
      /\ ConsumedPulses = <<9000, 2500, 500, 11000>> )
    => \E k \in 1..Len(emitted) :
           emitted[k].message.type = "NECRepeatIRMessage"

\* the number of pulses above limit in pulses
RECURSIVE Above(_, _)
Above(pulses, limit) ==
    IF pulses = <<>> THEN 0
    ELSE (IF Head(pulses) > limit THEN 1 ELSE 0) + Above(Tail(pulses), limit)

RECURSIVE AllPulses(_)
AllPulses(messages) ==
    IF messages = <<>> THEN <<>>
    ELSE Head(messages).message.pulses \o AllPulses(Tail(messages))

\* C10: whether or not the caller iterates to the end, the pulses of every
\* emitted message hold exactly one pulse above max_pulse, the last, and no
\* consumed pulse is in more than one message.
C10_OneGapPerMessage ==
    /\ \A k \in 1..Len(emitted) :
           LET pulses == emitted[k].message.pulses IN
           /\ Above(pulses, max_pulse) = 1
           /\ pulses[Len(pulses)] > max_pulse
    /\ Len(AllPulses(emitted)) <= Len(consumed)
    /\ AllPulses(emitted) = SubSeq(ConsumedPulses, 1, Len(AllPulses(emitted)))

(***************************************************************************)
(* Properties of GenericDecode.read_pulses (SpecReadPulses).               *)
(***************************************************************************)
RECURSIVE SkipLong(_)
SkipLong(pulses) ==
    IF pulses # <<>> /\ Head(pulses) > ReadPulsesMaxPulse
    THEN SkipLong(Tail(pulses)) ELSE pulses

RECURSIVE TakeShort(_)
TakeShort(pulses) ==
    IF pulses # <<>> /\ Head(pulses) <= ReadPulsesMaxPulse
    THEN <<Head(pulses)>> \o TakeShort(Tail(pulses)) ELSE <<>>

\* the first run of pulses up to max_pulse among those taken
Burst == TakeShort(SkipLong(rp_taken))

\* C8: read_pulses returns only after a round that found the source empty;
\* it returns the first run of pulses not above max_pulse among all it took,
\* or None when there is none; a returned list is not empty and holds no
\* pulse above max_pulse; with blocking=False and the source empty at the
\* call it returns None without sleeping; with blocking=True it never
\* returns None.
C8_ReadPulses ==
    rp_pc = "returned" =>
        /\ recent_count = 0
        /\ rp_result = (IF Burst = <<>> THEN Nothing ELSE Some(Burst))
        /\ IsSome(rp_result) =>
               /\ Value(rp_result) # <<>>
               /\ \A k \in 1..Len(Value(rp_result)) :
                      Value(rp_result)[k] <= ReadPulsesMaxPulse
        /\ (~rp_blocking /\ rp_empty_at_call) =>
               /\ rp_result = Nothing
               /\ rp_slept = 0
        /\ rp_blocking => IsSome(rp_result)

C8_Witness ==
    /\ rp_pc = "returned"
    /\ rp_taken = <<11000, 500, 11000, 600>>
    /\ rp_result = Some(<<500>>)
    /\ rp_blocking

====
